---- MODULE Spec2Model ----
(***************************************************************************)
(* Model of GUI/launcher.py: the setup-and-run sequencer.                  *)
(* main() = check_uv -> create_venv -> install_requirements ->             *)
(* start_server (Popen, sleep, webbrowser.open, wait / terminate / wait).  *)
(*                                                                         *)
(* The sequencer's position is pc.  External tools are the environment:    *)
(* every invocation draws its outcome with \E.  An operator interrupt      *)
(* (KeyboardInterrupt) is delivered at the blocking calls: subprocess.run, *)
(* time.sleep, webbrowser.open and Popen.wait.  An exception no except     *)
(* clause catches ends the run: a traceback and status 1, or death by      *)
(* SIGINT for KeyboardInterrupt.                                           *)
(***************************************************************************)
EXTENDS Integers, FiniteSets, Sequences, TLC

\* number of consecutive runs of the launcher over the same filesystem
MaxRuns == 2

\* the list iterated by install_requirements, in order
ManifestList == <<"root", "GUI">>

Platforms == {"darwin", "win32", "linux"}

VARIABLES
    platform,       \* sys.platform
    manifests,      \* names of the requirements.txt files that exist
    venvDir,        \* VENV_DIR: "absent", "empty" (no interpreter), "ok"
    run,            \* index of the current run
    pc,             \* position of the sequencer
    use_uv,         \* main's use_uv
    ret,            \* return value of the last setup function
    idx,            \* position of install_requirements in ManifestList
    server_process, \* child: "none", "starting", "listening", "exited"
    childCode,      \* the child's own exit code: "none", "0", "1"
    exitStatus,     \* the launcher's exit status: "none", "0", "1", "SIGINT"
    exitAt,         \* position at which the run ended
    hist,           \* per-run record of the external invocations made
    createRuns,     \* runs in which the creation tool was invoked
    absentRuns      \* runs whose create_venv found VENV_DIR absent

vars == <<platform, manifests, venvDir, run, pc, use_uv, ret, idx,
          server_process, childCode, exitStatus, exitAt, hist,
          createRuns, absentRuns>>

fsVars    == <<platform, manifests>>
runsVars  == <<createRuns, absentRuns>>
childVars == <<server_process, childCode>>

HistInit ==
    [ uvOutcome     |-> "none",  \* result of uv --version
      uvChecks      |-> 0,
      venvAtEnsure  |-> "none",  \* VENV_DIR as create_venv found it
      createCalls   |-> 0,
      installCalls  |-> [m \in {"root", "GUI"} |-> 0],
      toolsUsed     |-> {},      \* "uv" / "std" used by create and install
      checked       |-> {},      \* list positions whose exists() was evaluated
      skipped       |-> {},      \* list positions skipped with a warning
      installed     |-> {},      \* list positions installed with status 0
      toolFailed    |-> "none",  \* "create" / "install" returned non-zero
      failedAt      |-> 0,       \* list position of the failed install
      spawnCalls    |-> 0,
      delayElapsed  |-> FALSE,
      browserCalls  |-> 0,
      browserResult |-> "none",  \* webbrowser.open's return value
      browserAt     |-> "none",  \* child state when the browser was opened
      termRequests  |-> 0,
      interrupts    |-> 0 ]      \* interrupts delivered after the Popen

\* get_python_executable(): the interpreter path the launcher uses
get_python_executable(p) ==
    IF p = "darwin" THEN "bin/python" ELSE "Scripts/python.exe"

\* the interpreter path a created environment really has on platform p
VenvInterpreter(p) ==
    IF p = "win32" THEN "Scripts/python.exe" ELSE "bin/python"

\* str(python_exe) can be executed
PythonExeExists ==
    /\ venvDir = "ok"
    /\ get_python_executable(platform) = VenvInterpreter(platform)

Tool == IF use_uv THEN "uv" ELSE "std"

\* the run ends at the current position with the given status
Exit(status) ==
    /\ pc' = "exited"
    /\ exitStatus' = status
    /\ exitAt' = pc

Init ==
    /\ platform \in Platforms
    /\ manifests \in SUBSET {"root", "GUI"}
    /\ venvDir \in {"absent", "empty", "ok"}
    /\ run = 1
    /\ pc = "check_uv"
    /\ use_uv = FALSE
    /\ ret = TRUE
    /\ idx = 1
    /\ server_process = "none"
    /\ childCode = "none"
    /\ exitStatus = "none"
    /\ exitAt = "none"
    /\ hist = HistInit
    /\ createRuns = {}
    /\ absentRuns = {}

----------------------------------------------------------------------------
\* check_uv(), called by main: subprocess.run(["uv", "--version"], check=True)
check_uv ==
    /\ pc = "check_uv"
    /\ \E o \in {"ok", "nonzero", "notfound", "oserror", "interrupt"} :
         /\ hist' = [hist EXCEPT !.uvOutcome = o, !.uvChecks = @ + 1]
         /\ CASE o = "ok" ->
                   \* return True
                   /\ use_uv' = TRUE
                   /\ pc' = "create_venv"
                   /\ UNCHANGED <<exitStatus, exitAt>>
              [] o \in {"nonzero", "notfound"} ->
                   \* except (CalledProcessError, FileNotFoundError)
                   /\ use_uv' = FALSE
                   /\ pc' = "create_venv"
                   /\ UNCHANGED <<exitStatus, exitAt>>
              [] o = "oserror" ->
                   \* PermissionError and the other OSErrors are not caught
                   /\ Exit("1")
                   /\ UNCHANGED use_uv
              [] o = "interrupt" ->
                   /\ Exit("SIGINT")
                   /\ UNCHANGED use_uv
    /\ UNCHANGED <<fsVars, venvDir, run, ret, idx, childVars, runsVars>>

\* create_venv: except CalledProcessError: return False.  Nothing is rolled
\* back: the directory may have been left behind
CreateNonzero_Retry ==
    /\ venvDir' \in {"absent", "empty"}
    /\ ret' = FALSE
    /\ pc' = "create_venv"

CreateNonzero ==
    /\ venvDir' \in {"absent", "empty"}
    /\ ret' = FALSE
    /\ pc' = "main_venv_gate"

\* create_venv: the creation tool is invoked with check=True
InvokeCreate ==
    /\ createRuns' = createRuns \cup {run}
    /\ \E o \in {"ok", "nonzero", "interrupt"} :
         LET h == [hist EXCEPT !.venvAtEnsure = venvDir,
                               !.createCalls = @ + 1,
                               !.toolsUsed = @ \cup {Tool}]
         IN
         CASE o = "ok" ->
                /\ hist' = h
                /\ venvDir' = "ok"
                /\ ret' = TRUE
                /\ pc' = "main_venv_gate"
                /\ UNCHANGED <<exitStatus, exitAt>>
           [] o = "nonzero" ->
                /\ hist' = [h EXCEPT !.toolFailed = "create"]
                /\ CreateNonzero
                /\ UNCHANGED <<exitStatus, exitAt>>
           [] o = "interrupt" ->
                /\ hist' = h
                /\ venvDir' \in {"absent", "empty"}
                /\ Exit("SIGINT")
                /\ UNCHANGED ret

create_venv_NoExistsCheck ==
    /\ pc = "create_venv"
    /\ absentRuns' = IF venvDir = "absent" THEN absentRuns \cup {run}
                                           ELSE absentRuns
    /\ InvokeCreate
    /\ UNCHANGED <<fsVars, run, use_uv, idx, childVars>>

\* create_venv(use_uv)
create_venv ==
    /\ pc = "create_venv"
    /\ IF venvDir # "absent"
         THEN \* VENV_DIR.exists(): return True
              /\ ret' = TRUE
              /\ pc' = "main_venv_gate"
              /\ hist' = [hist EXCEPT !.venvAtEnsure = venvDir]
              /\ UNCHANGED <<venvDir, exitStatus, exitAt, runsVars>>
         ELSE /\ absentRuns' = absentRuns \cup {run}
              /\ InvokeCreate
    /\ UNCHANGED <<fsVars, run, use_uv, idx, childVars>>

main_venv_gate_NoExit ==
    /\ pc = "main_venv_gate"
    /\ pc' = "install_requirements"
    /\ idx' = 1
    /\ UNCHANGED <<fsVars, venvDir, run, use_uv, ret, childVars, hist,
                   exitStatus, exitAt, runsVars>>

\* main: if not create_venv(use_uv): sys.exit(1)
main_venv_gate ==
    /\ pc = "main_venv_gate"
    /\ IF ret
         THEN /\ pc' = "install_requirements"
              /\ idx' = 1
              /\ UNCHANGED <<exitStatus, exitAt>>
         ELSE /\ Exit("1")
              /\ UNCHANGED idx
    /\ UNCHANGED <<fsVars, venvDir, run, use_uv, ret, childVars, hist,
                   runsVars>>

\* install_requirements: except CalledProcessError: return False
InstallNonzero_Continue ==
    /\ idx' = idx + 1
    /\ UNCHANGED <<pc, ret>>

InstallNonzero ==
    /\ ret' = FALSE
    /\ pc' = "main_install_gate"
    /\ UNCHANGED idx

\* install_requirements(use_uv): one iteration of its loop, or its return
install_requirements ==
    /\ pc = "install_requirements"
    /\ IF idx > Len(ManifestList)
         THEN \* the list is exhausted: return True
              /\ ret' = TRUE
              /\ pc' = "main_install_gate"
              /\ UNCHANGED <<idx, hist, exitStatus, exitAt>>
         ELSE LET name == ManifestList[idx]
                  h0 == [hist EXCEPT !.checked = @ \cup {idx}]
              IN
              IF name \notin manifests
                THEN \* not req_file.exists(): warning, continue
                     /\ hist' = [h0 EXCEPT !.skipped = @ \cup {idx}]
                     /\ idx' = idx + 1
                     /\ UNCHANGED <<pc, ret, exitStatus, exitAt>>
                ELSE LET h1 == [h0 EXCEPT !.installCalls[name] = @ + 1,
                                          !.toolsUsed = @ \cup {Tool}]
                     IN
                     IF ~use_uv /\ ~PythonExeExists
                       THEN \* FileNotFoundError is not caught
                            /\ hist' = h1
                            /\ Exit("1")
                            /\ UNCHANGED <<idx, ret>>
                       ELSE \E o \in {"ok", "nonzero", "interrupt"} :
                         CASE o = "ok" ->
                                /\ hist' = [h1 EXCEPT !.installed =
                                                          @ \cup {idx}]
                                /\ idx' = idx + 1
                                /\ UNCHANGED <<pc, ret, exitStatus, exitAt>>
                           [] o = "nonzero" ->
                                /\ hist' = [h1 EXCEPT
                                     !.toolFailed = "install",
                                     !.failedAt = IF @ = 0 THEN idx ELSE @]
                                /\ InstallNonzero
                                /\ UNCHANGED <<exitStatus, exitAt>>
                           [] o = "interrupt" ->
                                /\ hist' = h1
                                /\ Exit("SIGINT")
                                /\ UNCHANGED <<idx, ret>>
    /\ UNCHANGED <<fsVars, venvDir, run, use_uv, childVars, runsVars>>

main_install_gate_NoExit ==
    /\ pc = "main_install_gate"
    /\ pc' = "popen"
    /\ UNCHANGED <<fsVars, venvDir, run, use_uv, ret, idx, childVars, hist,
                   exitStatus, exitAt, runsVars>>

\* main: if not install_requirements(use_uv): sys.exit(1)
main_install_gate ==
    /\ pc = "main_install_gate"
    /\ IF ret
         THEN pc' = "popen" /\ UNCHANGED <<exitStatus, exitAt>>
         ELSE Exit("1")
    /\ UNCHANGED <<fsVars, venvDir, run, use_uv, ret, idx, childVars, hist,
                   runsVars>>

----------------------------------------------------------------------------
\* start_server: server_process = subprocess.Popen([python_exe, ...])
popen ==
    /\ pc = "popen"
    /\ IF PythonExeExists
         THEN /\ server_process' = "starting"
              /\ hist' = [hist EXCEPT !.spawnCalls = @ + 1]
              /\ pc' = "sleep"
              /\ UNCHANGED <<exitStatus, exitAt>>
         ELSE \* FileNotFoundError: no process is created
              /\ Exit("1")
              /\ UNCHANGED <<server_process, hist>>
    /\ UNCHANGED <<fsVars, venvDir, run, use_uv, ret, idx, childCode,
                   runsVars>>

\* start_server: time.sleep(2), outside the try
sleep ==
    /\ pc = "sleep"
    /\ \/ /\ hist' = [hist EXCEPT !.delayElapsed = TRUE]
          /\ pc' = "webbrowser"
          /\ UNCHANGED <<exitStatus, exitAt>>
       \/ /\ hist' = [hist EXCEPT !.interrupts = @ + 1]
          /\ Exit("SIGINT")
    /\ UNCHANGED <<fsVars, venvDir, run, use_uv, ret, idx, childVars,
                   runsVars>>

webbrowser_open_FailureStopsServer ==
    /\ pc = "webbrowser"
    /\ \E o \in {"True", "False"} :
         /\ hist' = [hist EXCEPT !.browserCalls = @ + 1,
                                 !.browserResult = o,
                                 !.browserAt = server_process,
                                 !.termRequests =
                                     IF o = "False" THEN @ + 1 ELSE @]
         /\ IF o = "False"
              THEN Exit("1")
              ELSE pc' = "wait" /\ UNCHANGED <<exitStatus, exitAt>>
    /\ UNCHANGED <<fsVars, venvDir, run, use_uv, ret, idx, childVars,
                   runsVars>>

\* start_server: webbrowser.open(url), outside the try, result ignored
webbrowser_open ==
    /\ pc = "webbrowser"
    /\ \/ \E o \in {"True", "False"} :
            /\ hist' = [hist EXCEPT !.browserCalls = @ + 1,
                                    !.browserResult = o,
                                    !.browserAt = server_process]
            /\ pc' = "wait"
            /\ UNCHANGED <<exitStatus, exitAt>>
       \/ /\ hist' = [hist EXCEPT !.browserCalls = @ + 1,
                                  !.interrupts = @ + 1]
          /\ Exit("SIGINT")
    /\ UNCHANGED <<fsVars, venvDir, run, use_uv, ret, idx, childVars,
                   runsVars>>

\* start_server: try: server_process.wait()
wait ==
    /\ pc = "wait"
    /\ \/ \* the child has exited: wait returns, main returns
          /\ server_process = "exited"
          /\ Exit("0")
          /\ UNCHANGED hist
       \/ \* except KeyboardInterrupt
          /\ hist' = [hist EXCEPT !.interrupts = @ + 1]
          /\ pc' = "terminate"
          /\ UNCHANGED <<exitStatus, exitAt>>
    /\ UNCHANGED <<fsVars, venvDir, run, use_uv, ret, idx, childVars,
                   runsVars>>

\* start_server: server_process.terminate() in the except clause
terminate ==
    /\ pc = "terminate"
    /\ hist' = [hist EXCEPT !.termRequests = @ + 1]
    /\ pc' = "wait2"
    /\ UNCHANGED <<fsVars, venvDir, run, use_uv, ret, idx, childVars,
                   exitStatus, exitAt, runsVars>>

\* start_server: the second server_process.wait(), inside the except clause
wait2 ==
    /\ pc = "wait2"
    /\ \/ /\ server_process = "exited"
          /\ Exit("0")
          /\ UNCHANGED hist
       \/ \* a KeyboardInterrupt here is caught by nothing
          /\ hist' = [hist EXCEPT !.interrupts = @ + 1]
          /\ Exit("SIGINT")
    /\ UNCHANGED <<fsVars, venvDir, run, use_uv, ret, idx, childVars,
                   runsVars>>

----------------------------------------------------------------------------
\* the child (manage.py runserver) binds its listening socket
ChildBind ==
    /\ server_process = "starting"
    /\ server_process' = "listening"
    /\ UNCHANGED <<fsVars, venvDir, run, pc, use_uv, ret, idx, childCode,
                   exitStatus, exitAt, hist, runsVars>>

\* the child exits, by itself or because it was signalled
ChildExit ==
    /\ server_process \in {"starting", "listening"}
    /\ server_process' = "exited"
    /\ childCode' \in {"0", "1"}
    /\ UNCHANGED <<fsVars, venvDir, run, pc, use_uv, ret, idx,
                   exitStatus, exitAt, hist, runsVars>>

\* the launcher is started again over the same filesystem
Restart ==
    /\ pc = "exited"
    /\ run < MaxRuns
    /\ run' = run + 1
    /\ pc' = "check_uv"
    /\ use_uv' = FALSE
    /\ ret' = TRUE
    /\ idx' = 1
    /\ server_process' = "none"
    /\ childCode' = "none"
    /\ exitStatus' = "none"
    /\ exitAt' = "none"
    /\ hist' = HistInit
    /\ UNCHANGED <<fsVars, venvDir, runsVars>>

Next ==
    \/ check_uv
    \/ create_venv
    \/ main_venv_gate
    \/ install_requirements
    \/ main_install_gate
    \/ popen
    \/ sleep
    \/ webbrowser_open
    \/ wait
    \/ terminate
    \/ wait2
    \/ ChildBind
    \/ ChildExit
    \/ Restart

Spec == Init /\ [][Next]_vars

\* the interpreter goes on to the statement after a call that returned
FairSpec ==
    /\ Spec
    /\ WF_vars(main_venv_gate)
    /\ WF_vars(main_install_gate)

----------------------------------------------------------------------------
serverCreated == hist.spawnCalls > 0
browserOpened == hist.browserCalls > 0
Ended         == pc = "exited"

----------------------------------------------------------------------------
Positions == 1..Len(ManifestList)

\* C1: once the server process is launched, an interrupt delivered at any
\* later point (delay, browser open, either wait) results in exactly one
\* termination request and in the sequencer exiting with status 0.
C1_InterruptTerminatesOnceExitZero ==
    (Ended /\ hist.interrupts > 0) =>
        (hist.termRequests = 1 /\ exitStatus = "0")

\* C2: a non-zero status of the creation tool or of an installer ends the
\* run with status 1; the server is never created, the browser never
\* opened, and no pipeline step runs after the failing one.
C2_ToolFailureAborts ==
    /\ [](hist.toolFailed # "none" =>
            /\ ~serverCreated
            /\ ~browserOpened
            /\ exitStatus \in {"none", "1"})
    /\ [][hist.toolFailed # "none" =>
            \/ /\ pc' = "exited"
               /\ exitStatus' = "1"
               /\ hist' = hist
               /\ venvDir' = venvDir
               /\ server_process' = "none"
            \/ run' = run + 1]_vars
    /\ (hist.toolFailed # "none") ~> (exitStatus = "1")

C2_Witness ==
    /\ Ended
    /\ exitStatus = "1"
    /\ hist.toolFailed = "install"
    /\ hist.failedAt = 2
    /\ 1 \in hist.installed

\* C3: in install_requirements a missing manifest is skipped and the loop
\* goes on with the next entry, never aborting the run; a non-zero installer
\* status on a present manifest aborts at once: no later manifest of the
\* list is checked or installed.
C3_SkipContinuesFailureAborts ==
    /\ [](hist.failedAt # 0 =>
            \A j \in Positions :
                j > hist.failedAt =>
                    /\ j \notin hist.checked
                    /\ hist.installCalls[ManifestList[j]] = 0)
    /\ []((pc = "main_install_gate" /\ ~ret) => hist.toolFailed = "install")
    /\ []((pc = "main_install_gate" /\ ret) => hist.checked = Positions)
    /\ [][(/\ pc = "install_requirements"
           /\ idx \in Positions
           /\ ManifestList[idx] \notin manifests) =>
              /\ pc' = "install_requirements"
              /\ idx' = idx + 1
              /\ exitStatus' = "none"
              /\ ret' = ret
              /\ hist'.skipped = hist.skipped \cup {idx}
              /\ hist'.installCalls = hist.installCalls]_vars

C3_Witness ==
    /\ Ended
    /\ hist.failedAt = 1
    /\ "GUI" \in manifests
    /\ 2 \notin hist.checked

C3_WitnessSkip ==
    /\ 1 \in hist.skipped
    /\ 2 \in hist.installed
    /\ serverCreated

\* C4: a failure of the uv version check, whatever its reason, is not fatal
\* and selects the standard tool for every later creation and install call;
\* no run mixes the two tools.
C4_DetectionNeverFatalNoMixing ==
    /\ hist.uvOutcome \in {"nonzero", "notfound", "oserror"} =>
          /\ exitAt # "check_uv"
          /\ ~use_uv
          /\ hist.toolsUsed \subseteq {"std"}
    /\ Cardinality(hist.toolsUsed) <= 1

\* the ensure step of a run that finds the directory is a no-op
EnsureIsNoOp ==
    hist.venvAtEnsure \in {"empty", "ok"} =>
        /\ hist.createCalls = 0
        /\ venvDir = hist.venvAtEnsure
        /\ (pc = "main_venv_gate" => ret)
        /\ hist.toolFailed # "create"
        /\ run \notin createRuns

\* C5 as stated: when the directory exists the ensure step is a no-op, and
\* over repeated runs the creation tool is invoked at most in the first run
\* that finds the directory absent.
C5_CreateOnlyInFirstAbsentRun ==
    /\ EnsureIsNoOp
    /\ \A r \in createRuns : \A a \in absentRuns : r <= a

\* C5 amended: when the directory exists the ensure step is a no-op, and
\* over repeated runs the creation tool is invoked exactly in the runs that
\* find the directory absent.
C5_CreateOnlyInAbsentRuns ==
    /\ EnsureIsNoOp
    /\ createRuns = absentRuns

C5_Witness ==
    /\ run = 2
    /\ createRuns = {1}
    /\ hist.venvAtEnsure = "ok"
    /\ pc = "main_venv_gate"

\* C6: whenever the server process has been created, the environment
\* directory exists and the install step has succeeded over the whole
\* manifest list: every entry was processed and every present manifest was
\* installed with status 0.
C6_ServerOnlyAfterSetup ==
    serverCreated =>
        /\ venvDir # "absent"
        /\ hist.venvAtEnsure # "none"
        /\ hist.toolFailed = "none"
        /\ hist.checked = Positions
        /\ \A i \in Positions :
              IF ManifestList[i] \in manifests
                THEN i \in hist.installed
                ELSE i \in hist.skipped

C6_Witness ==
    /\ serverCreated
    /\ hist.installed = Positions
    /\ hist.createCalls = 1

\* C7: no retries: in a run the uv version check is made exactly once, and
\* the creation tool, the installer of each manifest, the server spawn and
\* the browser open are each invoked at most once, whatever fails.
C7_NoRetries ==
    /\ hist.uvChecks <= 1
    /\ (pc # "check_uv" => hist.uvChecks = 1)
    /\ hist.createCalls <= 1
    /\ \A i \in Positions : hist.installCalls[ManifestList[i]] <= 1
    /\ hist.spawnCalls <= 1
    /\ hist.browserCalls <= 1

C7_Witness ==
    /\ Ended
    /\ hist.uvChecks = 1
    /\ hist.createCalls = 1
    /\ \A i \in Positions : hist.installCalls[ManifestList[i]] = 1
    /\ hist.spawnCalls = 1
    /\ hist.browserCalls = 1
    /\ hist.browserResult = "False"

\* C8: a run has exactly two kinds of outcome: status 0 after the whole
\* pipeline and the exit of the server process, or a non-zero status before
\* the server is launched.
C8_TwoOutcomes ==
    Ended =>
        \/ /\ exitStatus = "0"
           /\ serverCreated
           /\ server_process = "exited"
        \/ /\ exitStatus # "0"
           /\ ~serverCreated

\* C9: the browser is opened only after the spawn and the delay; whether
\* the open succeeds or fails the sequencer does not abort, sends no
\* termination request and goes on to the blocking wait; the open is not
\* synchronised with the state of the server.
C9_BrowserBestEffort ==
    /\ [](browserOpened => serverCreated /\ hist.delayElapsed)
    /\ [][(/\ pc = "webbrowser"
           /\ hist'.browserResult \in {"True", "False"}) =>
              /\ pc' = "wait"
              /\ exitStatus' = "none"
              /\ hist'.termRequests = hist.termRequests
              /\ hist'.browserCalls = hist.browserCalls + 1
              /\ server_process' = server_process]_vars

C9_Witness ==
    /\ pc = "wait"
    /\ hist.browserResult = "False"
    /\ hist.browserAt = "starting"
    /\ hist.termRequests = 0

C9_WitnessAfterExit ==
    /\ pc = "wait"
    /\ hist.browserAt = "exited"

\* C10: no orphaned server: in every terminal state reached after the
\* server process was created, the server process has exited.
C10_NoOrphanedServer ==
    (Ended /\ serverCreated) => server_process = "exited"

====
